---- MODULE Spec2Model ----
(***************************************************************************)
(* A model of simple-cacher (src/src/lib.rs): SimpleCacher<T, U>, an       *)
(* insertion-ordered map (IndexMap) from keys to SimpleCacheObject<U>      *)
(* entries with a per-entry TTL, lazy expiration and an optional size      *)
(* limit enforced by evicting index 0 before each insert.                  *)
(*                                                                         *)
(* Time is a discrete clock `now` (Instant::now()); a Duration is a number *)
(* of clock units.  Option<X> is a sequence of length at most one: <<>> is *)
(* None and <<x>> is Some(x).  The IndexMap is the sequence of its         *)
(* (key, object) pairs in iteration order.                                 *)
(***************************************************************************)
EXTENDS Integers, Sequences, FiniteSets, TLC

\* ------------------------------------------------------------------ bounds
MaxKey == 3
MaxVal == 2
MaxTime == 1
MaxTtl == 0
MaxCap == 2
\* the bounds of the runs in which entries carry different TTLs
MaxKeyTtl == 2
MaxTtlWide == 1

Keys == 1..MaxKey
Values == 1..MaxVal
Ttls == 0..MaxTtl
Sizes == 0..MaxCap
\* a matcher is identified with the set of keys its `matches` accepts
Matchers == SUBSET Keys
KeysTtl == 1..MaxKeyTtl
TtlsWide == 0..MaxTtlWide
\* RangeMatcher { min, max, inclusive }
Ranges == [min : 0..(MaxKey + 1), max : 0..(MaxKey + 1), inclusive : BOOLEAN]

VARIABLES
    cache,      \* SimpleCacher.cache: sequence of [key, obj] in iteration order
    max_age,    \* SimpleCacher.max_age: the default TTL
    max_size,   \* SimpleCacher.max_size: Option<usize>
    now,        \* the monotonic clock read by Instant::now() / elapsed()
    pc,         \* "idle" between calls, "insert" inside insert/insert_with_ttl
    pending,    \* the arguments of the insert call in progress
    iter,       \* parity of the number of eviction-loop iterations of the call
    ret,        \* what the last completed call returned
    run,        \* keys inserted so far, while the store has seen only
                \* inserts of pairwise distinct keys since construction
    runOk,      \* TRUE while `run` is the whole history of the store
    removed,    \* how many entries the last call took out of the map (for
                \* a call in progress: how many it has taken out so far)
    evicted     \* the entries the eviction loop of the insert call in
                \* progress, or of the insert that has just returned, took
                \* out, in the order it took them

vars ==
    <<cache, max_age, max_size, now, pc, pending, iter, ret, run, runOk,
      removed, evicted>>

\* ------------------------------------------------------- SimpleCacheObject
\* SimpleCacheObject::new, called at instant t
NewObject(value, ttl, t) ==
    [created_at |-> t, value |-> value, max_age |-> ttl]

IsExpiredNonStrict(obj, t) == t - obj.created_at >= obj.max_age

\* SimpleCacheObject::is_expired evaluated at instant t
IsExpired(obj, t) == t - obj.created_at > obj.max_age

\* Matcher::matches (FnMatcher: the wrapped predicate applied to the key)
Matches(m, key) == key \in m

RangeMatchesHalfOpen(r, key) ==
    IF r.inclusive
    THEN key >= r.min /\ key < r.max
    ELSE key > r.min /\ key < r.max

\* RangeMatcher::matches
RangeMatches(r, key) ==
    IF r.inclusive
    THEN key >= r.min /\ key <= r.max
    ELSE key > r.min /\ key < r.max

\* the range matcher r as a matcher: the keys its `matches` accepts
RangeSet(r) == {key \in Keys : RangeMatches(r, key)}

\* ---------------------------------------------------------------- IndexMap
KeysOf(c) == {c[i].key : i \in 1..Len(c)}

HasKey(c, k) == k \in KeysOf(c)

\* position of k in iteration order (1-based); 0 when absent
IndexOf(c, k) ==
    IF HasKey(c, k) THEN CHOOSE i \in 1..Len(c) : c[i].key = k ELSE 0

\* IndexMap::get
MapGet(c, k) ==
    IF HasKey(c, k) THEN <<c[IndexOf(c, k)].obj>> ELSE <<>>

ShiftRemoveFrom(c, k) ==
    IF ~HasKey(c, k) THEN c ELSE SubSeq(c, 1, IndexOf(c, k) - 1)

SwapRemove(c, k) ==
    IF ~HasKey(c, k) THEN c
    ELSE LET i == IndexOf(c, k)
             n == Len(c)
         IN [j \in 1..(n - 1) |-> IF j = i THEN c[n] ELSE c[j]]

ShiftRemoveOrFirst(c, k) ==
    LET Keep(e) == e.key # k
    IN IF HasKey(c, k) THEN SelectSeq(c, Keep)
       ELSE IF c = <<>> THEN c ELSE Tail(c)

\* IndexMap::shift_remove: removes the key, keeps the order of the rest
ShiftRemove(c, k) ==
    LET Keep(e) == e.key # k IN SelectSeq(c, Keep)

ShiftRemoveIndexSoonest(c, i) ==
    IF i + 1 > Len(c) THEN c
    ELSE LET Due(j) == c[j].obj.created_at + c[j].obj.max_age
             j0 == CHOOSE j \in 1..Len(c) :
                     \A l \in 1..Len(c) :
                        Due(j) < Due(l) \/ (Due(j) = Due(l) /\ j <= l)
         IN SubSeq(c, 1, j0 - 1) \o SubSeq(c, j0 + 1, Len(c))

ShiftRemoveIndexAll(c, i) ==
    IF i + 1 > Len(c) THEN c ELSE SubSeq(c, 1, i)

PopLast(c, i) ==
    IF Len(c) = 0 THEN c ELSE SubSeq(c, 1, Len(c) - 1)

\* IndexMap::shift_remove_index(i), i counted from 0; None when out of range
ShiftRemoveIndex(c, i) ==
    IF i + 1 > Len(c) THEN c
    ELSE SubSeq(c, 1, i) \o SubSeq(c, i + 2, Len(c))

MapInsertKeepOld(c, k, obj) ==
    IF HasKey(c, k) THEN c ELSE Append(c, [key |-> k, obj |-> obj])

MapInsertFront(c, k, obj) ==
    IF HasKey(c, k)
    THEN [c EXCEPT ![IndexOf(c, k)] = [key |-> k, obj |-> obj]]
    ELSE <<[key |-> k, obj |-> obj]>> \o c

MapInsertPurge(c, k, obj) ==
    LET Live(e) == e.key = k \/ ~IsExpired(e.obj, obj.created_at)
        c1 == SelectSeq(c, Live)
    IN IF HasKey(c1, k)
       THEN [c1 EXCEPT ![IndexOf(c1, k)] = [key |-> k, obj |-> obj]]
       ELSE Append(c1, [key |-> k, obj |-> obj])

MapInsertKeepTime(c, k, obj) ==
    IF HasKey(c, k)
    THEN [c EXCEPT ![IndexOf(c, k)].obj.value = obj.value,
                   ![IndexOf(c, k)].obj.max_age = obj.max_age]
    ELSE Append(c, [key |-> k, obj |-> obj])

\* IndexMap::insert: an existing key keeps its position and gets the new
\* value; a new key is appended
MapInsert(c, k, obj) ==
    IF HasKey(c, k)
    THEN [c EXCEPT ![IndexOf(c, k)] = [key |-> k, obj |-> obj]]
    ELSE Append(c, [key |-> k, obj |-> obj])

MapClearKeepFirst(c) == IF c = <<>> THEN c ELSE <<c[1]>>

\* IndexMap::clear
MapClear(c) == <<>>

SetValueExtend(c, k, v) ==
    [c EXCEPT ![IndexOf(c, k)].obj.value = v,
              ![IndexOf(c, k)].obj.max_age = @ + 1]

\* *entry.value_mut() = v on the entry of the stored key k
SetValue(c, k, v) ==
    [c EXCEPT ![IndexOf(c, k)].obj.value = v]

RemoveKeysFirst(c, keys) ==
    IF keys = <<>> THEN c ELSE ShiftRemove(c, Head(keys))

\* for key in keys { cache.shift_remove(&key) }
RECURSIVE RemoveKeys(_, _)
RemoveKeys(c, keys) ==
    IF keys = <<>> THEN c
    ELSE RemoveKeys(ShiftRemove(c, Head(keys)), Tail(keys))

\* ------------------------------------------------------------ SimpleCacher
EvictCondStrict(c, ms) == ms # <<>> /\ Len(c) > ms[1]

\* insert / insert_with_ttl: `if let Some(max_size)` and the while condition
EvictCond(c, ms) == ms # <<>> /\ Len(c) >= ms[1]

GetOutcomeKeep(c, k, t) ==
    IF MapGet(c, k) = <<>>
    THEN [kind |-> "NotFound", out |-> <<>>, cache |-> c]
    ELSE IF IsExpired(MapGet(c, k)[1], t)
    THEN [kind |-> "Expired", out |-> <<>>, cache |-> c]
    ELSE [kind |-> "Ok",
          out |-> <<[key |-> k, obj |-> MapGet(c, k)[1]]>>,
          cache |-> c]

GetOutcomeSilent(c, k, t) ==
    IF MapGet(c, k) = <<>>
    THEN [kind |-> "NotFound", out |-> <<>>, cache |-> c]
    ELSE IF IsExpired(MapGet(c, k)[1], t)
    THEN [kind |-> "NotFound", out |-> <<>>, cache |-> ShiftRemove(c, k)]
    ELSE [kind |-> "Ok",
          out |-> <<[key |-> k, obj |-> MapGet(c, k)[1]]>>,
          cache |-> c]

GetOutcomeTouch(c, k, t) ==
    IF MapGet(c, k) = <<>>
    THEN [kind |-> "NotFound", out |-> <<>>, cache |-> c]
    ELSE IF IsExpired(MapGet(c, k)[1], t)
    THEN [kind |-> "Expired", out |-> <<>>, cache |-> ShiftRemove(c, k)]
    ELSE [kind |-> "Ok",
          out |-> <<[key |-> k, obj |-> MapGet(c, k)[1]]>>,
          cache |-> Append(ShiftRemove(c, k),
                           [key |-> k, obj |-> MapGet(c, k)[1]])]

GetOutcomeSweepOnOk(c, k, t) ==
    LET Live(e) == ~IsExpired(e.obj, t) IN
    IF MapGet(c, k) = <<>>
    THEN [kind |-> "NotFound", out |-> <<>>, cache |-> c]
    ELSE IF IsExpired(MapGet(c, k)[1], t)
    THEN [kind |-> "Expired", out |-> <<>>, cache |-> ShiftRemove(c, k)]
    ELSE [kind |-> "Ok",
          out |-> <<[key |-> k, obj |-> MapGet(c, k)[1]]>>,
          cache |-> SelectSeq(c, Live)]

GetOutcomeSweepOnExpired(c, k, t) ==
    LET Live(e) == ~IsExpired(e.obj, t) IN
    IF MapGet(c, k) = <<>>
    THEN [kind |-> "NotFound", out |-> <<>>, cache |-> c]
    ELSE IF IsExpired(MapGet(c, k)[1], t)
    THEN [kind |-> "Expired", out |-> <<>>, cache |-> SelectSeq(c, Live)]
    ELSE [kind |-> "Ok",
          out |-> <<[key |-> k, obj |-> MapGet(c, k)[1]]>>,
          cache |-> c]

\* get called at instant t: the result and the map afterwards
GetOutcome(c, k, t) ==
    IF MapGet(c, k) = <<>>
    THEN [kind |-> "NotFound", out |-> <<>>, cache |-> c]
    ELSE IF IsExpired(MapGet(c, k)[1], t)
    THEN [kind |-> "Expired", out |-> <<>>, cache |-> ShiftRemove(c, k)]
    ELSE [kind |-> "Ok",
          out |-> <<[key |-> k, obj |-> MapGet(c, k)[1]]>>,
          cache |-> c]

GetMutOutcomeKeep(c, k, t) ==
    IF MapGet(c, k) = <<>>
    THEN [kind |-> "NotFound", out |-> <<>>, cache |-> c]
    ELSE IF IsExpired(MapGet(c, k)[1], t)
    THEN [kind |-> "Expired", out |-> <<>>, cache |-> c]
    ELSE [kind |-> "Ok",
          out |-> <<[key |-> k, obj |-> MapGet(c, k)[1]]>>,
          cache |-> c]

GetMutOutcomeRevive(c, k, t) ==
    IF MapGet(c, k) = <<>>
    THEN [kind |-> "NotFound", out |-> <<>>, cache |-> c]
    ELSE IF IsExpired(MapGet(c, k)[1], t)
    THEN [kind |-> "Ok",
          out |-> <<[key |-> k,
                     obj |-> [MapGet(c, k)[1] EXCEPT !.created_at = t]]>>,
          cache |-> [c EXCEPT ![IndexOf(c, k)].obj.created_at = t]]
    ELSE [kind |-> "Ok",
          out |-> <<[key |-> k, obj |-> MapGet(c, k)[1]]>>,
          cache |-> c]

\* get_mut called at instant t: the result and the map afterwards
GetMutOutcome(c, k, t) ==
    IF MapGet(c, k) = <<>>
    THEN [kind |-> "NotFound", out |-> <<>>, cache |-> c]
    ELSE IF IsExpired(MapGet(c, k)[1], t)
    THEN [kind |-> "Expired", out |-> <<>>, cache |-> ShiftRemove(c, k)]
    ELSE [kind |-> "Ok",
          out |-> <<[key |-> k, obj |-> MapGet(c, k)[1]]>>,
          cache |-> c]

EntryTtlDefault(p, ma) == ma

\* the TTL handed to SimpleCacheObject::new: self.max_age in insert, the
\* ttl argument in insert_with_ttl
EntryTtl(p, ma) == IF p.op = "insert" THEN ma ELSE p.ttl

ExpiredKeysFirst(c, t) ==
    LET Exp(e) == IsExpired(e.obj, t)
        es == SelectSeq(c, Exp)
    IN IF es = <<>> THEN <<>> ELSE <<es[1].key>>

\* cleanup_expired: the keys collected by the filter_map, in order
ExpiredKeys(c, t) ==
    LET Exp(e) == IsExpired(e.obj, t)
        es == SelectSeq(c, Exp)
    IN [i \in 1..Len(es) |-> es[i].key]

ScanStepLast(acc, e, m, t) ==
    IF IsExpired(e.obj, t)
    THEN [acc EXCEPT !.expired_keys = Append(@, e.key)]
    ELSE IF Matches(m, e.key)
    THEN [acc EXCEPT !.found_key = <<e.key>>]
    ELSE acc

ScanStepBreak(acc, e, m, t) ==
    IF acc.found_key # <<>> THEN acc
    ELSE IF IsExpired(e.obj, t)
    THEN [acc EXCEPT !.expired_keys = Append(@, e.key)]
    ELSE IF Matches(m, e.key)
    THEN [acc EXCEPT !.found_key = <<e.key>>]
    ELSE acc

\* get_by_matcher, body of the first-pass loop for one (key, obj) pair
ScanStep(acc, e, m, t) ==
    IF IsExpired(e.obj, t)
    THEN [acc EXCEPT !.expired_keys = Append(@, e.key)]
    ELSE IF acc.found_key = <<>> /\ Matches(m, e.key)
    THEN [acc EXCEPT !.found_key = <<e.key>>]
    ELSE acc

\* get_by_matcher, the first pass over the map from position i on
RECURSIVE Scan(_, _, _, _, _)
Scan(c, m, t, i, acc) ==
    IF i > Len(c) THEN acc
    ELSE Scan(c, m, t, i + 1, ScanStep(acc, c[i], m, t))

MatchAllNoExpiry(c, m, t) ==
    LET Sel(e) == Matches(m, e.key) IN SelectSeq(c, Sel)

\* get_all_by_matcher: the filter over the map, evaluated at instant t
MatchAll(c, m, t) ==
    LET Sel(e) == ~IsExpired(e.obj, t) /\ Matches(m, e.key)
    IN SelectSeq(c, Sel)

ContainsKeyAnyAge(c, k, t) == MapGet(c, k) # <<>>

ContainsKeyNonStrict(c, k, t) ==
    IF MapGet(c, k) = <<>> THEN FALSE
    ELSE ~(t - MapGet(c, k)[1].created_at >= MapGet(c, k)[1].max_age)

\* contains_key evaluated at instant t
ContainsKeyResult(c, k, t) ==
    IF MapGet(c, k) = <<>> THEN FALSE ELSE ~IsExpired(MapGet(c, k)[1], t)

ActiveEntriesAll(c, t) == c

\* iter_active: the entries the filtered iterator yields at instant t
ActiveEntries(c, t) ==
    LET Active(e) == ~IsExpired(e.obj, t) IN SelectSeq(c, Active)

\* active_len evaluated at instant t
ActiveLenOf(c, t) ==
    LET Active(e) == ~IsExpired(e.obj, t) IN Len(SelectSeq(c, Active))

StatsOfActiveAsExpired(c, ms, ma, t) ==
    LET NotExp(e) == ~IsExpired(e.obj, t)
        total == Len(c)
        expired == Len(SelectSeq(c, NotExp))
    IN [total_entries |-> total, active_entries |-> total - expired,
        expired_entries |-> expired, max_size |-> ms, max_age |-> ma]

StatsOfUnbounded(c, ms, ma, t) ==
    LET Exp(e) == IsExpired(e.obj, t)
        total == Len(c)
        expired == Len(SelectSeq(c, Exp))
    IN [total_entries |-> total, active_entries |-> total - expired,
        expired_entries |-> expired, max_size |-> <<>>, max_age |-> ma]

\* stats evaluated at instant t on a store with fields c, ms, ma
StatsOf(c, ms, ma, t) ==
    LET Exp(e) == IsExpired(e.obj, t)
        total == Len(c)
        expired == Len(SelectSeq(c, Exp))
    IN [total_entries |-> total, active_entries |-> total - expired,
        expired_entries |-> expired, max_size |-> ms, max_age |-> ma]

Bool(b) == IF b THEN "True" ELSE "False"

\* ----------------------------------------------------------------- records
NoPending == [op |-> "none", key |-> 0, value |-> 0, ttl |-> 0]

Ret(op, kind, out, count) ==
    [op |-> op, kind |-> kind, out |-> out, count |-> count]

NoRet == Ret("new", "Unit", <<>>, 0)

\* ------------------------------------------------------------------- Init
\* SimpleCacher::new(max_age) or SimpleCacher::with_max_size(max_age, n)
Init ==
    /\ cache = <<>>
    /\ max_age \in Ttls
    /\ max_size \in {<<>>} \cup {<<n>> : n \in Sizes}
    /\ now = 0
    /\ pc = "idle"
    /\ pending = NoPending
    /\ iter = 0
    /\ ret = NoRet
    /\ run = <<>>
    /\ runOk = TRUE
    /\ removed = 0
    /\ evicted = <<>>

\* ---------------------------------------------------------------- actions
BreakRun == run' = <<>> /\ runOk' = FALSE

\* time passes between two calls
Tick ==
    /\ pc = "idle"
    /\ now < MaxTime
    /\ now' = now + 1
    /\ ret' = Ret("tick", "Unit", <<>>, 0)
    /\ removed' = 0
    /\ evicted' = <<>>
    /\ UNCHANGED <<cache, max_age, max_size, pc, pending, iter, run, runOk>>

Get(k) ==
    /\ pc = "idle"
    /\ LET r == GetOutcome(cache, k, now) IN
        /\ cache' = r.cache
        /\ ret' = Ret("get", r.kind, r.out, 0)
    /\ BreakRun
    /\ removed' = Len(cache) - Len(cache')
    /\ evicted' = <<>>
    /\ UNCHANGED <<max_age, max_size, now, pc, pending, iter>>

GetMut(k) ==
    /\ pc = "idle"
    /\ LET r == GetMutOutcome(cache, k, now) IN
        /\ cache' = r.cache
        /\ ret' = Ret("get_mut", r.kind, r.out, 0)
    /\ BreakRun
    /\ removed' = Len(cache) - Len(cache')
    /\ evicted' = <<>>
    /\ UNCHANGED <<max_age, max_size, now, pc, pending, iter>>

\* if let Ok(entry) = cache.get_mut(&k) { *entry.value_mut() = v; }
ValueMut(k, v) ==
    /\ pc = "idle"
    /\ LET r == GetMutOutcome(cache, k, now) IN
        /\ cache' = IF r.kind = "Ok"
                    THEN SetValue(r.cache, k, v)
                    ELSE r.cache
        /\ ret' = Ret("value_mut", r.kind,
                      IF r.kind = "Ok"
                      THEN <<[key |-> k, obj |-> MapGet(cache', k)[1]]>>
                      ELSE <<>>, 0)
    /\ BreakRun
    /\ removed' = Len(cache) - Len(cache')
    /\ evicted' = <<>>
    /\ UNCHANGED <<max_age, max_size, now, pc, pending, iter>>

GetByMatcher(m) ==
    /\ pc = "idle"
    /\ LET s == Scan(cache, m, now, 1,
                     [expired_keys |-> <<>>, found_key |-> <<>>])
           c2 == RemoveKeys(cache, s.expired_keys)
       IN
        /\ cache' = c2
        /\ ret' = IF s.found_key # <<>> /\ MapGet(c2, s.found_key[1]) # <<>>
                  THEN Ret("get_by_matcher", "Ok",
                           <<[key |-> s.found_key[1],
                              obj |-> MapGet(c2, s.found_key[1])[1]]>>, 0)
                  ELSE Ret("get_by_matcher", "NotFound", <<>>, 0)
    /\ BreakRun
    /\ removed' = Len(cache) - Len(cache')
    /\ evicted' = <<>>
    /\ UNCHANGED <<max_age, max_size, now, pc, pending, iter>>

\* cleanup_expired reads the clock at `now`, the filter that follows reads
\* it d units later
GetAllByMatcher(m, d) ==
    /\ pc = "idle"
    /\ now + d <= MaxTime
    /\ LET c2 == RemoveKeys(cache, ExpiredKeys(cache, now)) IN
        /\ cache' = c2
        /\ ret' = Ret("get_all_by_matcher", "Unit",
                      MatchAll(c2, m, now + d), 0)
    /\ now' = now + d
    /\ BreakRun
    /\ removed' = Len(cache) - Len(cache')
    /\ evicted' = <<>>
    /\ UNCHANGED <<max_age, max_size, pc, pending, iter>>

InsertCall(k, v) ==
    /\ pc = "idle"
    /\ pc' = "insert"
    /\ pending' = [op |-> "insert", key |-> k, value |-> v, ttl |-> 0]
    /\ iter' = 0
    /\ ret' = Ret("insert", "Running", <<>>, 0)
    /\ removed' = 0
    /\ evicted' = <<>>
    /\ UNCHANGED <<cache, max_age, max_size, now, run, runOk>>

InsertWithTtlCall(k, v, ttl) ==
    /\ pc = "idle"
    /\ pc' = "insert"
    /\ pending' = [op |-> "insert_with_ttl", key |-> k, value |-> v,
                   ttl |-> ttl]
    /\ iter' = 0
    /\ ret' = Ret("insert_with_ttl", "Running", <<>>, 0)
    /\ removed' = 0
    /\ evicted' = <<>>
    /\ UNCHANGED <<cache, max_age, max_size, now, run, runOk>>

\* one iteration of `while self.cache.len() >= max_size`
EvictStep ==
    /\ pc = "insert"
    /\ EvictCond(cache, max_size)
    /\ cache' = ShiftRemoveIndex(cache, 0)
    /\ iter' = 1 - iter
    /\ removed' = removed + (Len(cache) - Len(cache'))
    /\ evicted' = IF cache = <<>> THEN evicted ELSE Append(evicted, cache[1])
    /\ UNCHANGED <<max_age, max_size, now, pc, pending, ret, run, runOk>>

\* the loop is left (or was skipped): build the object, insert it, return
InsertReturn ==
    /\ pc = "insert"
    /\ ~EvictCond(cache, max_size)
    /\ cache' = MapInsert(cache, pending.key,
                          NewObject(pending.value,
                                    EntryTtl(pending, max_age), now))
    /\ ret' = Ret(pending.op, "Unit", <<>>, 0)
    /\ pc' = "idle"
    /\ pending' = NoPending
    /\ iter' = 0
    /\ IF runOk /\ pending.key \notin {run[i] : i \in 1..Len(run)}
       THEN run' = Append(run, pending.key) /\ runOk' = TRUE
       ELSE BreakRun
    /\ UNCHANGED <<max_age, max_size, now, removed, evicted>>

Remove(k) ==
    /\ pc = "idle"
    /\ cache' = ShiftRemove(cache, k)
    /\ ret' = IF MapGet(cache, k) = <<>>
              THEN Ret("remove", "None", <<>>, 0)
              ELSE Ret("remove", "Some",
                       <<[key |-> k, obj |-> MapGet(cache, k)[1]]>>, 0)
    /\ BreakRun
    /\ removed' = Len(cache) - Len(cache')
    /\ evicted' = <<>>
    /\ UNCHANGED <<max_age, max_size, now, pc, pending, iter>>

CleanupExpired ==
    /\ pc = "idle"
    /\ LET expired_keys == ExpiredKeys(cache, now) IN
        /\ cache' = RemoveKeys(cache, expired_keys)
        /\ ret' = Ret("cleanup_expired", "Unit", <<>>,
                      Len(expired_keys))
    /\ BreakRun
    /\ removed' = Len(cache) - Len(cache')
    /\ evicted' = <<>>
    /\ UNCHANGED <<max_age, max_size, now, pc, pending, iter>>

Clear ==
    /\ pc = "idle"
    /\ cache' = MapClear(cache)
    /\ ret' = Ret("clear", "Unit", <<>>, 0)
    /\ BreakRun
    /\ removed' = Len(cache) - Len(cache')
    /\ evicted' = <<>>
    /\ UNCHANGED <<max_age, max_size, now, pc, pending, iter>>

\* the calls below take &self: they read the map and change nothing
ContainsKey(k) ==
    /\ pc = "idle"
    /\ ret' = Ret("contains_key", Bool(ContainsKeyResult(cache, k, now)),
                  <<>>, 0)
    /\ BreakRun
    /\ removed' = 0
    /\ evicted' = <<>>
    /\ UNCHANGED <<cache, max_age, max_size, now, pc, pending, iter>>

Length ==
    /\ pc = "idle"
    /\ ret' = Ret("len", "Unit", <<>>, Len(cache))
    /\ BreakRun
    /\ removed' = 0
    /\ evicted' = <<>>
    /\ UNCHANGED <<cache, max_age, max_size, now, pc, pending, iter>>

ActiveLen ==
    /\ pc = "idle"
    /\ ret' = Ret("active_len", "Unit", <<>>, ActiveLenOf(cache, now))
    /\ BreakRun
    /\ removed' = 0
    /\ evicted' = <<>>
    /\ UNCHANGED <<cache, max_age, max_size, now, pc, pending, iter>>

IsEmpty ==
    /\ pc = "idle"
    /\ ret' = Ret("is_empty", Bool(Len(cache) = 0), <<>>, 0)
    /\ BreakRun
    /\ removed' = 0
    /\ evicted' = <<>>
    /\ UNCHANGED <<cache, max_age, max_size, now, pc, pending, iter>>

Stats ==
    /\ pc = "idle"
    /\ ret' = Ret("stats", "Unit",
                  <<StatsOf(cache, max_size, max_age, now)>>, 0)
    /\ BreakRun
    /\ removed' = 0
    /\ evicted' = <<>>
    /\ UNCHANGED <<cache, max_age, max_size, now, pc, pending, iter>>

\* iter_active, the iterator being run to its end at once
IterActive ==
    /\ pc = "idle"
    /\ ret' = Ret("iter_active", "Unit", ActiveEntries(cache, now), 0)
    /\ BreakRun
    /\ removed' = 0
    /\ evicted' = <<>>
    /\ UNCHANGED <<cache, max_age, max_size, now, pc, pending, iter>>

Next ==
    \/ Tick
    \/ \E k \in Keys : Get(k)
    \/ \E k \in Keys : GetMut(k)
    \/ \E k \in Keys, v \in Values : ValueMut(k, v)
    \/ \E m \in Matchers : GetByMatcher(m)
    \/ \E m \in Matchers, d \in 0..1 : GetAllByMatcher(m, d)
    \/ \E k \in Keys, v \in Values : InsertCall(k, v)
    \/ \E k \in Keys, v \in Values, ttl \in Ttls : InsertWithTtlCall(k, v, ttl)
    \/ EvictStep
    \/ InsertReturn
    \/ \E k \in Keys : Remove(k)
    \/ CleanupExpired
    \/ Clear
    \/ \E k \in Keys : ContainsKey(k)
    \/ Length
    \/ ActiveLen
    \/ IsEmpty
    \/ Stats
    \/ IterActive

Spec == Init /\ [][Next]_vars

\* a call that has started keeps running: the loop iterates while its
\* condition holds and the insert happens once it does not
FairSpec == Spec /\ WF_vars(EvictStep) /\ WF_vars(InsertReturn)

\* the same store with entries of different TTLs: the default TTL and the
\* ttl arguments range over TtlsWide, the keys over KeysTtl
InitTtl ==
    /\ cache = <<>>
    /\ max_age \in TtlsWide
    /\ max_size \in {<<>>} \cup {<<n>> : n \in Sizes}
    /\ now = 0
    /\ pc = "idle"
    /\ pending = NoPending
    /\ iter = 0
    /\ ret = NoRet
    /\ run = <<>>
    /\ runOk = TRUE
    /\ removed = 0
    /\ evicted = <<>>

NextTtl ==
    \/ Tick
    \/ \E k \in KeysTtl : Get(k)
    \/ \E k \in KeysTtl : GetMut(k)
    \/ \E k \in KeysTtl, v \in Values : ValueMut(k, v)
    \/ \E m \in SUBSET KeysTtl : GetByMatcher(m)
    \/ \E m \in SUBSET KeysTtl, d \in 0..1 : GetAllByMatcher(m, d)
    \/ \E k \in KeysTtl, v \in Values : InsertCall(k, v)
    \/ \E k \in KeysTtl, v \in Values, ttl \in TtlsWide :
            InsertWithTtlCall(k, v, ttl)
    \/ EvictStep
    \/ InsertReturn
    \/ \E k \in KeysTtl : Remove(k)
    \/ CleanupExpired
    \/ Clear
    \/ \E k \in KeysTtl : ContainsKey(k)
    \/ Length
    \/ ActiveLen
    \/ IsEmpty
    \/ Stats
    \/ IterActive

TtlSpec == InitTtl /\ [][NextTtl]_vars

\* ------------------------------------------------------------- properties
InsertOps == {"insert", "insert_with_ttl"}

\* the insert call in progress has left its loop and returns in this step
InsertReturns(k) == InsertReturn /\ pending.key = k

\* this step is the eviction of k's entry by the loop of an insert
Evicts(k) == EvictStep /\ cache # <<>> /\ cache[1].key = k

\* C1: in a store built with with_max_size(ttl, n), right after any insert
\* or insert_with_ttl call has returned the store holds at most n entries.
C1_SizeBoundAfterInsert ==
    (pc = "idle" /\ ret.op \in InsertOps /\ max_size # <<>>)
        => Len(cache) <= max_size[1]

\* an insert has returned into a store that other operations had used, and
\* the store is exactly full
C1_Witness ==
    /\ pc = "idle" /\ ret.op \in InsertOps /\ ~runOk
    /\ max_size = <<MaxCap>> /\ Len(cache) = MaxCap

\* C2: FIFO eviction: after n+1 distinct keys k1..k_{n+1} were inserted in
\* that order into an empty store of capacity n >= 1, get(k1) is NotFound
\* and each of k2..k_{n+1} is present, its get being Ok while unexpired.
C2_FifoEviction ==
    (/\ pc = "idle" /\ runOk /\ max_size # <<>> /\ max_size[1] >= 1
     /\ Len(run) = max_size[1] + 1)
        => /\ GetOutcome(cache, run[1], now).kind = "NotFound"
           /\ \A i \in 2..Len(run) :
                /\ GetOutcome(cache, run[i], now).kind # "NotFound"
                /\ ~IsExpired(MapGet(cache, run[i])[1], now)
                     => GetOutcome(cache, run[i], now).kind = "Ok"

\* three distinct keys went into a fresh store of capacity two
C2_Witness ==
    pc = "idle" /\ runOk /\ max_size = <<2>> /\ Len(run) = 3

\* C3: after m >= n distinct keys were inserted one after another into an
\* empty store of capacity n >= 1, len() = n and the keys present are the n
\* most recently inserted ones.
C3_NewestRemain ==
    (/\ pc = "idle" /\ runOk /\ max_size # <<>> /\ max_size[1] >= 1
     /\ Len(run) >= max_size[1])
        => /\ Len(cache) = max_size[1]
           /\ KeysOf(cache) =
                {run[i] : i \in (Len(run) - max_size[1] + 1)..Len(run)}

\* two more distinct keys than the capacity went into a fresh store
C3_Witness ==
    /\ pc = "idle" /\ runOk /\ max_size # <<>> /\ max_size[1] >= 1
    /\ Len(run) = max_size[1] + 2

\* C4: get(k) returns Expired exactly when k is stored with an age above
\* its TTL, and then k's entry is gone and a get(k) at once is NotFound; a
\* key that is absent stays absent until an insert of that key returns.
C4_ExpiredGetRemoves ==
    [][\A k \in Keys :
        /\ Get(k) =>
            /\ (ret'.kind = "Expired")
                 <=> (HasKey(cache, k) /\ IsExpired(MapGet(cache, k)[1], now))
            /\ (ret'.kind = "Expired")
                 => /\ ~HasKey(cache', k)
                    /\ GetOutcome(cache', k, now').kind = "NotFound"
        /\ (~HasKey(cache, k) /\ HasKey(cache', k)) => InsertReturns(k)
      ]_vars

\* a get has just reported Expired while other entries stay in the store
C4_Witness ==
    ret.op = "get" /\ ret.kind = "Expired" /\ cache # <<>>

\* what a get(k) at the instant after this step gives back is Ok with the
\* value k's entry had before the step
SameValueAfter(k) ==
    /\ GetOutcome(cache', k, now').kind = "Ok"
    /\ GetOutcome(cache', k, now').out[1].obj.value = MapGet(cache, k)[1].value

\* C5 as stated: an insert(k, v) that returns leaves get(k) = Ok(v), and a
\* stored k whose TTL has not elapsed keeps that answer over every step
\* other than a capacity eviction of k, remove(k), clear or an insert of k.
C5_InsertThenGetAsStated ==
    [][\A k \in Keys :
        /\ InsertReturns(k) =>
            /\ GetOutcome(cache', k, now').kind = "Ok"
            /\ GetOutcome(cache', k, now').out[1].obj.value = pending.value
        /\ (/\ HasKey(cache, k)
            /\ ~IsExpired(MapGet(cache, k)[1], now')
            /\ ~(Evicts(k) \/ Remove(k) \/ Clear \/ InsertReturns(k)))
                => SameValueAfter(k)
      ]_vars

\* C5 (amended): as above, where the steps excepted also include a write
\* to k's value through get_mut / value_mut.
C5_InsertThenGet ==
    [][\A k \in Keys :
        /\ InsertReturns(k) =>
            /\ GetOutcome(cache', k, now').kind = "Ok"
            /\ GetOutcome(cache', k, now').out[1].obj.value = pending.value
        /\ (/\ HasKey(cache, k)
            /\ ~IsExpired(MapGet(cache, k)[1], now')
            /\ ~(Evicts(k) \/ Remove(k) \/ Clear \/ InsertReturns(k))
            /\ ~(\E v \in Values : ValueMut(k, v)))
                => SameValueAfter(k)
      ]_vars

\* in a store of capacity one, a get has found the entry that an insert
\* put there after other operations had used the store
C5_Witness ==
    /\ ret.op = "get" /\ ret.kind = "Ok" /\ max_size = <<1>>
    /\ ret.out[1].obj.created_at = now /\ now > 0

\* C6: an insert of a key that is already stored leaves that key last in
\* iteration order, with the new value and creation time.
C6_ReinsertMovesToBack ==
    [][\A k \in Keys :
        (InsertReturns(k) /\ HasKey(cache, k))
            => /\ cache'[Len(cache')].key = k
               /\ cache'[Len(cache')].obj.value = pending.value
               /\ cache'[Len(cache')].obj.created_at = now
      ]_vars

\* C7: with capacity 0 an insert on the empty store evicts nothing and goes
\* on to insert: on the empty map the eviction loop's condition is false.
C7_ZeroCapacityInsert ==
    (pc = "insert" /\ max_size = <<0>> /\ cache = <<>>)
        => ~EvictCond(cache, max_size)

\* C8: every call returns; the calls of get, get_mut, get_by_matcher,
\* get_all_by_matcher, remove, cleanup_expired and clear are single passes
\* over a finite map, and an insert or insert_with_ttl that has been called
\* leaves its eviction loop and returns.
C8_InsertTerminates == (pc = "insert") ~> (pc = "idle")

\* C9: no entry returned by get_by_matcher or get_all_by_matcher is expired
\* at the instant the call scanned it.
C9_MatcherNeverReturnsExpired ==
    (ret.op \in {"get_by_matcher", "get_all_by_matcher"})
        => \A i \in 1..Len(ret.out) : ~IsExpired(ret.out[i].obj, now)

\* get_all_by_matcher has returned, and the store holds an entry that
\* outlived the cleanup and had expired by the time the filter scanned it
C9_Witness ==
    /\ ret.op = "get_all_by_matcher"
    /\ \E i \in 1..Len(cache) : IsExpired(cache[i].obj, now)

\* the first entry of c, in iteration order, that is not expired at t and
\* whose key m accepts
FirstMatch(c, m, t) ==
    LET S == {i \in 1..Len(c) :
                ~IsExpired(c[i].obj, t) /\ Matches(m, c[i].key)}
    IN IF S = {} THEN <<>>
       ELSE <<c[CHOOSE i \in S : \A j \in S : i <= j]>>

\* C10: get_by_matcher returns Ok with the first entry in iteration order
\* that is not expired and satisfies the matcher, NotFound exactly when
\* there is none, never Expired; the entry found is still stored afterwards.
C10_FirstMatch ==
    [][\A m \in Matchers :
        GetByMatcher(m) =>
            /\ ret'.kind # "Expired"
            /\ (ret'.kind = "NotFound") <=> (FirstMatch(cache, m, now) = <<>>)
            /\ (FirstMatch(cache, m, now) # <<>>)
                 => /\ ret'.kind = "Ok"
                    /\ ret'.out = FirstMatch(cache, m, now)
                    /\ MapGet(cache', ret'.out[1].key) = <<ret'.out[1].obj>>
      ]_vars

\* get_by_matcher returned an entry that is not the first one of the store:
\* an unexpired entry before it was passed over
C10_Witness ==
    /\ ret.op = "get_by_matcher" /\ ret.kind = "Ok"
    /\ IndexOf(cache, ret.out[1].key) > 1

\* c without the entries that are expired at instant t, order kept
WithoutExpired(c, t) ==
    LET Live(e) == ~(t - e.obj.created_at > e.obj.max_age)
    IN SelectSeq(c, Live)

\* how many entries of c are expired at instant t
ExpiredCount(c, t) ==
    Cardinality({i \in 1..Len(c) : t - c[i].obj.created_at > c[i].obj.max_age})

\* the keys of c in iteration order
KeySeq(c) == [i \in 1..Len(c) |-> c[i].key]

\* C11: get_by_matcher removes every entry that is expired at scan time,
\* match or no match and wherever the entry stands, removes no other entry
\* and keeps the order of the entries that remain.
C11_MatcherCleanup ==
    [][(ret'.op = "get_by_matcher") =>
        \A m \in Matchers :
            GetByMatcher(m) => cache' = WithoutExpired(cache, now)
      ]_vars

\* get_by_matcher found a match, removed expired entries and left two
C11_Witness ==
    /\ ret.op = "get_by_matcher" /\ ret.kind = "Ok"
    /\ removed >= 1 /\ Len(cache) >= 2

\* C12 as stated: get_all_by_matcher removes every entry expired at the
\* call, then returns exactly the remaining entries whose key the matcher
\* accepts, in iteration order.
C12_MatchAllAsStated ==
    [][(ret'.op = "get_all_by_matcher") =>
        \A m \in Matchers :
            (\E d \in 0..1 : GetAllByMatcher(m, d)) =>
                /\ cache' = WithoutExpired(cache, now)
                /\ ret'.out = LET Sel(e) == e.key \in m
                              IN SelectSeq(cache', Sel)
      ]_vars

\* C12 (amended): get_all_by_matcher removes every entry expired at the
\* call, then returns exactly the remaining entries that are not expired
\* when the filter scans them and whose key the matcher accepts, each once,
\* in iteration order.
C12_MatchAll ==
    [][(ret'.op = "get_all_by_matcher") =>
        \A m \in Matchers :
            (\E d \in 0..1 : GetAllByMatcher(m, d)) =>
                /\ cache' = WithoutExpired(cache, now)
                /\ ret'.out = LET Sel(e) == e.key \in m
                              IN SelectSeq(WithoutExpired(cache', now'), Sel)
      ]_vars

\* get_all_by_matcher removed an expired entry and returned another one
C12_Witness ==
    ret.op = "get_all_by_matcher" /\ ret.out # <<>> /\ removed >= 1

\* C13: cleanup_expired returns the number of entries expired at the call,
\* removes exactly those and leaves the active entries as they are and in
\* their order; len() afterwards is the active count before.
C13_CleanupExact ==
    [][CleanupExpired =>
        /\ ret'.count = ExpiredCount(cache, now)
        /\ cache' = WithoutExpired(cache, now)
        /\ Len(cache') = Len(cache) - ExpiredCount(cache, now)
      ]_vars

\* cleanup_expired removed an entry that stood before two active ones
C13_Witness ==
    ret.op = "cleanup_expired" /\ ret.count >= 1 /\ Len(cache) >= 2

\* C14: get(k) and get_mut(k) return NotFound exactly when k is not stored,
\* and then the store is unchanged; they return Expired only when k is
\* stored with an elapsed TTL.
C14_NotFoundVsExpired ==
    [][(ret'.op \in {"get", "get_mut"}) =>
        \A k \in Keys :
            (Get(k) \/ GetMut(k)) =>
                /\ ~HasKey(cache, k)
                     => (ret'.kind = "NotFound" /\ cache' = cache)
                /\ (ret'.kind = "NotFound") => ~HasKey(cache, k)
                /\ (ret'.kind = "Expired")
                     => /\ HasKey(cache, k)
                        /\ IsExpired(MapGet(cache, k)[1], now)
      ]_vars

\* get_mut missed a key in a store that holds other keys
C14_Witness ==
    ret.op = "get_mut" /\ ret.kind = "NotFound" /\ cache # <<>>

\* C15: contains_key(k) is true iff k is stored and not expired, and it
\* leaves the store as it is: an expired entry of k stays and is counted.
C15_ContainsKeyPeek ==
    [][(ret'.op = "contains_key") =>
        \A k \in Keys :
            ContainsKey(k) =>
                /\ (ret'.kind = "True")
                     <=> (/\ HasKey(cache, k)
                          /\ ~IsExpired(MapGet(cache, k)[1], now))
                /\ cache' = cache
                /\ Len(cache') = Len(cache)
      ]_vars

\* contains_key said false of a key that is stored: every key is stored
C15_Witness ==
    ret.op = "contains_key" /\ ret.kind = "False" /\ KeysOf(cache) = Keys

\* C16: len, active_len, is_empty, stats and iter_active change nothing;
\* iter_active yields exactly the non-expired entries in store order and
\* active_len counts them.
C16_ReadOnlyQueries ==
    [][(ret'.op \in {"len", "active_len", "is_empty", "stats", "iter_active"})
        => /\ cache' = cache
           /\ max_age' = max_age /\ max_size' = max_size /\ now' = now
           /\ (ret'.op = "iter_active")
                => ret'.out = WithoutExpired(cache, now)
           /\ (ret'.op = "active_len")
                => ret'.count = Len(WithoutExpired(cache, now))
      ]_vars

\* iter_active passed over an expired entry and yielded the others
C16_Witness ==
    ret.op = "iter_active" /\ ret.out # <<>> /\ Len(ret.out) < Len(cache)

\* C17: at every instant stats() has total_entries = len(), expired_entries
\* = the number of entries whose TTL has elapsed, active_entries = total -
\* expired = active_len(); len() counts the expired entries still stored.
C17_StatsConsistent ==
    LET s == StatsOf(cache, max_size, max_age, now) IN
        /\ s.total_entries = Len(cache)
        /\ s.expired_entries = ExpiredCount(cache, now)
        /\ s.active_entries = s.total_entries - s.expired_entries
        /\ s.active_entries = ActiveLenOf(cache, now)
        /\ (ret.op = "stats") => ret.out = <<s>>
        /\ (ret.op = "len") => ret.count = Len(cache)

\* stats has just reported both active and expired entries
C17_Witness ==
    /\ ret.op = "stats"
    /\ ret.out[1].expired_entries >= 1 /\ ret.out[1].active_entries >= 1

\* this step is a call of get, get_mut, contains_key or a value write on k
Accesses(k) ==
    Get(k) \/ GetMut(k) \/ ContainsKey(k) \/ (\E v \in Values : ValueMut(k, v))

\* C18 as stated: an eviction removes the front entry, and a get, get_mut,
\* contains_key, value write or get_by_matcher on a non-expired key leaves
\* the front entry, the next one to be evicted, the same.
C18_EvictionOrderAsStated ==
    [][/\ (EvictStep /\ cache # <<>>) => cache' = Tail(cache)
       /\ (ret'.op \in {"get", "get_mut", "contains_key", "value_mut"}) =>
            \A k \in Keys :
                (/\ Accesses(k) /\ HasKey(cache, k)
                 /\ ~IsExpired(MapGet(cache, k)[1], now))
                    => KeySeq(cache') = KeySeq(cache)
       /\ (ret'.op = "get_by_matcher" /\ ret'.kind = "Ok") =>
            \A m \in Matchers :
                GetByMatcher(m) => cache'[1].key = cache[1].key
      ]_vars

\* C18 (amended): an eviction removes the front entry; a get, get_mut,
\* contains_key or value write on a non-expired key leaves the order of the
\* keys as it is, and get_by_matcher changes it only by taking out the
\* entries that are expired at scan time.
C18_EvictionOrder ==
    [][/\ (EvictStep /\ cache # <<>>) => cache' = Tail(cache)
       /\ (ret'.op \in {"get", "get_mut", "contains_key", "value_mut"}) =>
            \A k \in Keys :
                (/\ Accesses(k) /\ HasKey(cache, k)
                 /\ ~IsExpired(MapGet(cache, k)[1], now))
                    => KeySeq(cache') = KeySeq(cache)
       /\ (ret'.op = "get_by_matcher" /\ ret'.kind = "Ok") =>
            \A m \in Matchers :
                GetByMatcher(m)
                    => KeySeq(cache') = KeySeq(WithoutExpired(cache, now))
      ]_vars

\* a get has found a key that is not the front entry of a full store: the
\* next insert evicts the front entry, not the one just read
C18_Witness ==
    /\ ret.op = "get" /\ ret.kind = "Ok" /\ Len(cache) >= 2
    /\ max_size = <<Len(cache)>> /\ cache[1].key # ret.out[1].key

\* C19: time passing removes nothing; an entry leaves the store only by
\* remove, clear, a capacity eviction, or, being expired, by get, get_mut,
\* get_by_matcher, get_all_by_matcher or cleanup_expired.
C19_LazyExpiration ==
    [][/\ (ret'.op = "tick") => cache' = cache
       /\ (Len(cache') < Len(cache) \/ KeysOf(cache') # KeysOf(cache)) =>
            \A k \in KeysOf(cache) \ KeysOf(cache') :
                \/ Remove(k)
                \/ Clear
                \/ Evicts(k)
                \/ /\ IsExpired(MapGet(cache, k)[1], now)
                   /\ ret'.op \in {"get", "get_mut", "value_mut",
                                   "get_by_matcher", "get_all_by_matcher",
                                   "cleanup_expired"}
      ]_vars

\* time has passed and an entry that is now expired is still stored
C19_Witness ==
    ret.op = "tick" /\ \E i \in 1..Len(cache) : IsExpired(cache[i].obj, now)

\* C20: remove of a key that is not stored returns None and changes
\* nothing; after any remove(k) a second remove(k) changes nothing.
C20_RemoveIdempotent ==
    [][(ret'.op = "remove") =>
        \A k \in Keys :
            Remove(k) =>
                /\ ~HasKey(cache, k)
                     => (ret'.kind = "None" /\ cache' = cache)
                /\ ~HasKey(cache', k)
                /\ ShiftRemove(cache', k) = cache'
      ]_vars

\* a remove has missed its key in a store that holds other keys
C20_Witness ==
    ret.op = "remove" /\ ret.kind = "None" /\ cache # <<>>

\* C21: remove(k) of a stored key returns Some with the stored entry, be it
\* expired or not, and afterwards k is absent while the other entries are
\* the same, in the same order.
C21_RemovePresent ==
    [][(ret'.op = "remove") =>
        \A k \in Keys :
            (Remove(k) /\ HasKey(cache, k)) =>
                LET i == IndexOf(cache, k) IN
                    /\ ret'.kind = "Some"
                    /\ ret'.out = <<[key |-> k, obj |-> cache[i].obj]>>
                    /\ ~HasKey(cache', k)
                    /\ cache' = SubSeq(cache, 1, i - 1)
                                  \o SubSeq(cache, i + 1, Len(cache))
      ]_vars

\* remove has returned an entry that was expired, and other entries stay
C21_Witness ==
    /\ ret.op = "remove" /\ ret.kind = "Some"
    /\ now - ret.out[1].obj.created_at > ret.out[1].obj.max_age
    /\ cache # <<>>

\* C22: for every state of the store, key and instant, get_mut(k) gives the
\* outcome kind get(k) would give and leaves the store as get(k) would.
C22_GetMutAsGet ==
    [][(ret'.op = "get_mut") =>
        \A k \in Keys :
            GetMut(k) =>
                /\ ret'.kind = GetOutcome(cache, k, now).kind
                /\ cache' = GetOutcome(cache, k, now).cache
      ]_vars

\* get_mut has reported Expired and removed the entry, others staying
C22_Witness ==
    ret.op = "get_mut" /\ ret.kind = "Expired" /\ removed = 1 /\ cache # <<>>

\* C23: a write to the value of k's entry through get_mut / value_mut
\* changes that value only: the entry keeps its creation time, its TTL and
\* so its expiry instant, and its position; the other entries are as
\* before; a get(k) that follows returns the new value.
C23_ValueMutFrame ==
    [][(ret'.op = "value_mut" /\ ret'.kind = "Ok") =>
        \A k \in Keys, v \in Values :
            ValueMut(k, v) =>
                LET i == IndexOf(cache, k) IN
                    /\ Len(cache') = Len(cache)
                    /\ \A j \in 1..Len(cache) : j # i => cache'[j] = cache[j]
                    /\ cache'[i].key = k
                    /\ cache'[i].obj.value = v
                    /\ cache'[i].obj.created_at = cache[i].obj.created_at
                    /\ cache'[i].obj.max_age = cache[i].obj.max_age
                    /\ \A t \in 0..(MaxTime + MaxTtlWide + 1) :
                         IsExpired(cache'[i].obj, t)
                            <=> IsExpired(cache[i].obj, t)
                    /\ GetOutcome(cache', k, now').kind = "Ok"
                    /\ GetOutcome(cache', k, now').out[1].obj.value = v
      ]_vars

\* a value was written into an entry created earlier, in a store of two
C23_Witness ==
    /\ ret.op = "value_mut" /\ ret.kind = "Ok"
    /\ ret.out[1].obj.created_at < now /\ Len(cache) = 2

\* C24: insert_with_ttl(k, v, ttl) evicts and places as insert(k, v) does,
\* and the new entry carries ttl where insert's carries the default TTL:
\* the store after the call is the same function of the store before, k, v
\* and the TTL used, so insert_with_ttl(k, v, default) is insert(k, v); the
\* entry expires by its own TTL.
C24_InsertWithTtl ==
    [][/\ InsertReturn =>
            LET k == pending.key
                T == IF pending.op = "insert_with_ttl"
                     THEN pending.ttl ELSE max_age
                e == [key |-> k,
                      obj |-> [created_at |-> now, value |-> pending.value,
                               max_age |-> T]]
            IN /\ ~(max_size # <<>> /\ Len(cache) >= max_size[1])
               /\ cache' = IF HasKey(cache, k)
                           THEN [cache EXCEPT ![IndexOf(cache, k)] = e]
                           ELSE Append(cache, e)
               /\ \A t \in now..(MaxTime + MaxTtlWide + 1) :
                    (GetOutcome(cache', k, t).kind = "Expired")
                        <=> (t - now > T)
       /\ EvictStep =>
            /\ max_size # <<>> /\ Len(cache) >= max_size[1]
            /\ cache # <<>> => cache' = Tail(cache)
      ]_vars

\* insert_with_ttl has returned after an eviction, and the entry it put in
\* carries a TTL that is not the store's default
C24_Witness ==
    /\ pc = "idle" /\ ret.op = "insert_with_ttl" /\ Len(evicted) = 1
    /\ \E i \in 1..Len(cache) :
         cache[i].obj.created_at = now /\ cache[i].obj.max_age # max_age

\* C25: an entry is expired iff the time since its creation is strictly
\* above its TTL: get succeeds at an age equal to the TTL, and an entry of
\* TTL 0 is active at its creation instant and expired once time has passed.
C25_ExpiryBoundary ==
    [][(ret'.op = "get") =>
        \A k \in Keys :
            (Get(k) /\ HasKey(cache, k)) =>
                LET o == cache[IndexOf(cache, k)].obj
                    age == now - o.created_at
                IN /\ (ret'.kind = "Expired") <=> (age > o.max_age)
                   /\ (age = o.max_age) => ret'.kind = "Ok"
                   /\ (o.max_age = 0 /\ age = 0) => ret'.kind = "Ok"
                   /\ (o.max_age = 0 /\ age > 0) => ret'.kind = "Expired"
      ]_vars

\* a get has succeeded on an entry whose age is its TTL, one unit or more
C25_Witness ==
    /\ ret.op = "get" /\ ret.kind = "Ok"
    /\ ret.out[1].obj.max_age >= 1
    /\ now - ret.out[1].obj.created_at = ret.out[1].obj.max_age

\* C26: clear() removes every entry, expired or not: afterwards len() is 0,
\* is_empty() is true and get of any key is NotFound; the default TTL and
\* the capacity are as before.
C26_Clear ==
    [][/\ Clear =>
            /\ cache' = <<>>
            /\ max_age' = max_age /\ max_size' = max_size
            /\ \A k \in Keys : GetOutcome(cache', k, now').kind = "NotFound"
       /\ (ret.op = "clear" /\ ret'.op = "len") => ret'.count = 0
       /\ (ret.op = "clear" /\ ret'.op = "is_empty") => ret'.kind = "True"
       /\ (ret.op = "clear" /\ ret'.op = "get") => ret'.kind = "NotFound"
      ]_vars

\* clear has removed several entries after time had passed
C26_Witness ==
    ret.op = "clear" /\ removed >= 2 /\ now > 0

\* C27: RangeMatcher::new(min, max) matches exactly the keys k with
\* min <= k <= max and RangeMatcher::exclusive(min, max) exactly those with
\* min < k < max; get_by_matcher with an inclusive range returns an entry
\* whose key lies in [min, max] whenever such an unexpired key is stored.
C27_RangeMatcher ==
    [][(ret'.op = "get_by_matcher") =>
        \A r \in Ranges :
            /\ \A k \in Keys :
                RangeMatches(r, k)
                    <=> IF r.inclusive
                        THEN k \in r.min..r.max
                        ELSE k \in (r.min + 1)..(r.max - 1)
            /\ (r.inclusive /\ GetByMatcher(RangeSet(r))) =>
                LET S == {i \in 1..Len(cache) :
                            /\ cache[i].key \in r.min..r.max
                            /\ ~IsExpired(cache[i].obj, now)}
                IN IF S = {}
                   THEN ret'.kind = "NotFound"
                   ELSE /\ ret'.kind = "Ok"
                        /\ ret'.out[1].key \in r.min..r.max
      ]_vars

\* get_by_matcher has returned key 2 out of the store 1, 2, 3: it passed
\* over key 1, as it does with a range that starts at 2
C27_Witness ==
    /\ ret.op = "get_by_matcher" /\ ret.kind = "Ok" /\ ret.out[1].key = 2
    /\ Len(cache) = 3 /\ cache[1].key = 1 /\ cache[2].key = 2

\* C28: an insert or insert_with_ttl of a key that is stored, called on a
\* store that holds exactly its capacity n >= 1, still evicts the front
\* entry first: if the key was not the front entry another key is lost and
\* the store ends with n - 1 entries; if it was, the key is removed and put
\* back last and the store ends with n entries.
C28_ReinsertWhenFull ==
    [][InsertReturn =>
        LET k == pending.key
            atCall == evicted \o cache
        IN (/\ max_size # <<>> /\ max_size[1] >= 1
            /\ Len(atCall) = max_size[1] /\ HasKey(atCall, k))
             => /\ Len(evicted) = 1
                /\ IF atCall[1].key = k
                   THEN /\ Len(cache') = max_size[1]
                        /\ cache'[Len(cache')].key = k
                        /\ KeysOf(cache') = KeysOf(atCall)
                   ELSE /\ Len(cache') = max_size[1] - 1
                        /\ HasKey(cache', k)
                        /\ KeysOf(cache') = KeysOf(atCall) \ {atCall[1].key}
      ]_vars

\* an insert into a full store of capacity two has evicted one entry and
\* left one: its key was the second entry, and the first is lost
C28_Witness ==
    /\ pc = "idle" /\ ret.op \in InsertOps /\ Len(evicted) = 1
    /\ max_size = <<2>> /\ Len(cache) = 1

\* C29: eviction does not look at expiration: the loop of insert runs while
\* len(), which counts expired entries, is at the capacity or above, and
\* each iteration takes out the front entry, active or not, whatever
\* expired entries stand behind it.
C29_EvictionIgnoresExpiry ==
    [][/\ EvictStep =>
            /\ max_size # <<>> /\ Len(cache) >= max_size[1]
            /\ cache # <<>>
                 => /\ cache' = Tail(cache)
                    /\ evicted' = Append(evicted, cache[1])
       /\ (pc = "insert" /\ max_size # <<>> /\ Len(cache) >= max_size[1])
            => ~InsertReturn
      ]_vars

\* the entry an insert evicted is still active, and an expired entry that
\* stood behind it is still stored
C29_Witness ==
    /\ Len(evicted) = 1 /\ ~IsExpired(evicted[1].obj, now)
    /\ \E i \in 1..Len(cache) : IsExpired(cache[i].obj, now)

\* C30: in a store of capacity n >= 1, len() <= n in every reachable state,
\* and one insert or insert_with_ttl call evicts at most one entry.
C30_SizeBoundAlways ==
    (max_size # <<>> /\ max_size[1] >= 1)
        => /\ Len(cache) <= max_size[1]
           /\ (pc = "insert" \/ ret.op \in InsertOps) => removed <= 1

\* inside an insert into a used store of capacity two that was full: one
\* entry is evicted and the loop is over
C30_Witness ==
    /\ pc = "insert" /\ removed = 1 /\ ~runOk
    /\ max_size = <<2>> /\ Len(cache) = 1

\* this step keeps the relative order of the keys stored before and after
OrderKept ==
    \A k1 \in KeysOf(cache) \cap KeysOf(cache'),
       k2 \in KeysOf(cache) \cap KeysOf(cache') :
        (IndexOf(cache, k1) < IndexOf(cache, k2))
            => (IndexOf(cache', k1) < IndexOf(cache', k2))

\* C31: every removal (remove, an expired entry found by get / get_mut, the
\* cleanup of get_by_matcher, cleanup_expired, a capacity eviction) keeps
\* the relative order of the entries that remain, so that the front entry
\* is always the oldest insertion that survives.
C31_OrderPreserved ==
    [][/\ OrderKept
       /\ \A i \in 1..Len(cache') :
            cache'[1].obj.created_at <= cache'[i].obj.created_at
      ]_vars

\* C32: get(k) on a stored, non-expired key leaves the store as it is: no
\* entry is removed, expired entries of other keys stay, and no entry
\* changes its value, creation time, TTL or position.
C32_GetOkFrame ==
    [][(ret'.op = "get" /\ ret'.kind = "Ok") =>
        /\ cache' = cache
        /\ \A k \in Keys :
            Get(k) => ret'.out = <<[key |-> k,
                                    obj |-> cache[IndexOf(cache, k)].obj]>>
      ]_vars

\* a get has succeeded while an expired entry of another key is stored
C32_Witness ==
    /\ ret.op = "get" /\ ret.kind = "Ok"
    /\ \E i \in 1..Len(cache) : IsExpired(cache[i].obj, now)

\* C33: get(k) or get_mut(k) on an expired key removes that entry and no
\* other: the other entries, expired ones included, stay in their order and
\* len() goes down by exactly 1.
C33_ExpiredRemovesOne ==
    [][(ret'.op \in {"get", "get_mut"} /\ ret'.kind = "Expired") =>
        \A k \in Keys :
            (Get(k) \/ GetMut(k)) =>
                LET i == IndexOf(cache, k) IN
                    /\ i >= 1
                    /\ cache' = SubSeq(cache, 1, i - 1)
                                  \o SubSeq(cache, i + 1, Len(cache))
                    /\ Len(cache') = Len(cache) - 1
      ]_vars

\* a get has reported Expired and another expired entry is still stored
C33_Witness ==
    /\ ret.op = "get" /\ ret.kind = "Expired" /\ removed = 1
    /\ \E i \in 1..Len(cache) : IsExpired(cache[i].obj, now)

\* C34: an expired entry is expired at every later instant, and over every
\* step other than the return of an insert of its key it is either removed
\* or stays the same, expired, entry: get_mut and value writes do not make
\* it active again.
C34_ExpiryMonotone ==
    [][\A k \in Keys :
        (HasKey(cache, k) /\ IsExpired(MapGet(cache, k)[1], now)) =>
            /\ \A t \in now..(MaxTime + MaxTtlWide + 1) :
                 IsExpired(MapGet(cache, k)[1], t)
            /\ (HasKey(cache', k) /\ ~InsertReturns(k)) =>
                 /\ MapGet(cache', k) = MapGet(cache, k)
                 /\ IsExpired(MapGet(cache', k)[1], now')
      ]_vars

\* a get_mut has succeeded on one key while an expired entry of another
\* key stayed in the store
C34_Witness ==
    /\ ret.op = "get_mut" /\ ret.kind = "Ok"
    /\ \E i \in 1..Len(cache) : IsExpired(cache[i].obj, now)

\* C35: an insert of a key whose entry is stored and expired gives the key
\* a new entry with the new value, the insert instant as creation time and
\* the new TTL: contains_key(k) is true, and get(k) is Ok with the new value
\* until the new TTL has elapsed.
C35_InsertRevives ==
    [][InsertReturn =>
        LET k == pending.key
            atCall == evicted \o cache
            T == IF pending.op = "insert_with_ttl"
                 THEN pending.ttl ELSE max_age
        IN (HasKey(atCall, k) /\ IsExpired(MapGet(atCall, k)[1], now)) =>
            /\ MapGet(cache', k) =
                 <<[created_at |-> now, value |-> pending.value,
                    max_age |-> T]>>
            /\ ContainsKeyResult(cache', k, now')
            /\ \A t \in now..(MaxTime + MaxTtlWide + 1) :
                 IF t - now <= T
                 THEN /\ GetOutcome(cache', k, t).kind = "Ok"
                      /\ GetOutcome(cache', k, t).out[1].obj.value
                           = pending.value
                 ELSE GetOutcome(cache', k, t).kind = "Expired"
      ]_vars

\* an insert has returned whose key stood at the front, expired: the old
\* entry was evicted and the key is stored again
C35_Witness ==
    /\ pc = "idle" /\ ret.op \in InsertOps /\ Len(evicted) = 1
    /\ IsExpired(evicted[1].obj, now)
    /\ HasKey(cache, evicted[1].key)

\* C36: at one instant contains_key and get agree: contains_key(k) is true
\* iff get(k) is Ok; when it is false, get(k) is Expired if k is stored and
\* NotFound if it is not.
C36_ContainsKeyAgreesWithGet ==
    [][(ret'.op = "contains_key") =>
        \A k \in Keys :
            ContainsKey(k) =>
                /\ (ret'.kind = "True")
                     <=> (GetOutcome(cache', k, now').kind = "Ok")
                /\ (ret'.kind = "False" /\ HasKey(cache', k))
                     => GetOutcome(cache', k, now').kind = "Expired"
                /\ (ret'.kind = "False" /\ ~HasKey(cache', k))
                     => GetOutcome(cache', k, now').kind = "NotFound"
      ]_vars

\* contains_key said true of one key while another key is stored expired
C36_Witness ==
    /\ ret.op = "contains_key" /\ ret.kind = "True"
    /\ \E i \in 1..Len(cache) : IsExpired(cache[i].obj, now)

\* C37: right after a cleanup_expired no stored entry is expired at that
\* instant: stats().expired_entries is 0, and a second cleanup_expired with
\* no time passed and no call in between returns 0 and changes nothing.
C37_CleanupIdempotent ==
    [][/\ CleanupExpired =>
            /\ ExpiredCount(cache', now') = 0
            /\ StatsOf(cache', max_size', max_age', now').expired_entries = 0
       /\ (ret.op = "cleanup_expired" /\ ret'.op = "cleanup_expired") =>
            (ret'.count = 0 /\ cache' = cache)
       /\ (ret.op = "cleanup_expired" /\ ret'.op = "stats") =>
            ret'.out[1].expired_entries = 0
      ]_vars

\* a cleanup_expired made after time had passed found nothing to remove in
\* a store that holds entries
C37_Witness ==
    /\ ret.op = "cleanup_expired" /\ ret.count = 0 /\ removed = 0
    /\ now > 0 /\ cache # <<>>

\* C38: no operation changes the default TTL or the capacity, stats()
\* reports these values, and in a store built by new(ttl), whose capacity
\* is None, an insert evicts nothing.
C38_ConfigFixed ==
    [][/\ max_age' = max_age /\ max_size' = max_size
       /\ (ret'.op = "stats") =>
            /\ ret'.out[1].max_size = max_size
            /\ ret'.out[1].max_age = max_age
       /\ (max_size = <<>>) =>
            /\ ~EvictStep
            /\ InsertReturn =>
                 /\ removed = 0 /\ evicted = <<>>
                 /\ KeysOf(cache') = KeysOf(cache) \cup {pending.key}
      ]_vars

\* stats of a store without capacity that holds more entries than any
\* capacity in use would allow
C38_Witness ==
    /\ ret.op = "stats" /\ ret.out[1].max_size = <<>>
    /\ Len(cache) > MaxCap

====
